---- MODULE Spec2Model ----
(***************************************************************************)
(* A model of tree_rag: the PaperTree document tree (paper_tree.py), its   *)
(* three structural post-processing passes, the chunk grouping of          *)
(* split_to_sections, and the two hierarchical retrievers of rag.py.       *)
(*                                                                         *)
(* PaperTree objects live in a heap `tree`: a function from object         *)
(* identities (1..n) to records of the object's fields.  A text is         *)
(* represented by the two counts the code observes of it: the number of    *)
(* non-whitespace characters (chars) and of whitespace characters          *)
(* (spaces).  Titles and breadcrumb ids are strings.                       *)
(***************************************************************************)
EXTENDS Integers, Sequences, FiniteSets, TLC

VARIABLES
    \* PaperTree objects and the passes over them
    tree,            \* heap of PaperTree objects: [title, text, abstract, sections, parent]
    papers,          \* the root objects, in order (the values of the `papers` dict)
    last,            \* the function that ran last ("__init__" after construction)
    stage,           \* the passes run so far while they follow PassOrder, else <<"other">>
    \* split_to_sections, lines 128-183: the chunking of the text left after float extraction
    len_chunks,      \* len(chunks): the number of chunks the token splitter returned
    split_text,      \* the local `text` after all float elements were removed
    split_sections,  \* the local list `sections`: the titles of the children made so far
    split_pc,        \* "chunking" before line 137, "returned" after the return
    \* LevelSearchRAG / LevelSearchRerankRAG objects and one query call
    cls,             \* the retriever's class
    id_to_paper,     \* dict: breadcrumb id -> PaperTree object
    level_zero,      \* list of the ids of the indexed depth-0 objects
    collection,      \* the vector index: id -> document
    pc,              \* "idle", "while" (at the loop test), "returned", "raised"
    n_results,       \* the argument k of query
    sim,             \* embedding similarity of the query to each document of the index
    rel,             \* cross-encoder relevance of each document to the query
    focus_ids,       \* the frontier
    final_results,   \* the result list
    id_to_relevance, \* the relevance cache of LevelSearchRerankRAG.query
    iterations,      \* number of executions of the loop body in this call
    scored_ids,      \* the ids whose documents went to llm_reranker in this call, in order
    error,           \* the exception that ended the call, "" if none
    \* PaperTree(title, text) on a text given token by token
    document,        \* the argument `text` of the constructor
    built,           \* the constructed object with everything below it
    build_pc,        \* "call" before the constructor runs, "done" after
    \* split_to_sections, lines 137-159, on the text itself
    body,            \* the local `text`, word by word
    chunks,          \* the local `chunks`
    section_texts,   \* the texts given to the "Subsection i" children
    \* two query calls on one LevelSearchRerankRAG, interleaved
    calls,           \* the locals of each call
    \* retrievers of the four classes on the client of the process
    client,          \* the collections of the client: name -> documents
    retrievers,      \* the retriever objects alive
    \* BaseRAG / BaseRerankRAG
    rag_chunks,      \* self.chunks
    rag_ids          \* self.ids

treeVars == <<tree, papers, last, stage>>
splitVars == <<len_chunks, split_text, split_sections, split_pc>>
ragVars == <<cls, id_to_paper, level_zero, collection>>
queryVars == <<pc, n_results, sim, rel, focus_ids, final_results, id_to_relevance,
               iterations, scored_ids, error>>
buildVars == <<document, built, build_pc>>
groupVars == <<body, chunks, section_texts>>
concVars == <<calls>>
clientVars == <<client, retrievers>>
flatVars == <<rag_chunks, rag_ids>>
\* the variables of the parts added to the first four
extVars == <<buildVars, groupVars, concVars, clientVars, flatVars>>
vars == <<treeVars, splitVars, ragVars, queryVars, extVars>>

(***************************************************************************)
(* Bounds of the model.                                                    *)
(***************************************************************************)
MaxNodes == 6          \* PaperTree objects of one document tree

(***************************************************************************)
(* Program constants.                                                      *)
(***************************************************************************)
MAX_CHUNKS == 8
MIN_SECTION_LENGTH == 50

None == <<>>           \* Python's None for an optional field; Some(x) is <<x>>
NoParent == 0          \* parent = None

Nodes == DOMAIN tree

(***************************************************************************)
(* Strings.  Python's `a in b` on strings is the substring test.           *)
(***************************************************************************)
Contains(s, t) ==
    \E i \in 1..(Len(s) + 1) : \E j \in (i - 1)..Len(s) : SubSeq(s, i, j) = t

\* len(re.sub("\s", "", text)): the text with every whitespace character removed
StrippedLen(text) == text.chars

\* len(text)
RawLen(text) == text.chars + text.spaces

(***************************************************************************)
(* PaperTree.get_depth and PaperTree._id_str, over a heap h.               *)
(***************************************************************************)
RECURSIVE get_depth(_, _)
get_depth(h, n) ==
    IF h[n].parent = NoParent THEN 0 ELSE 1 + get_depth(h, h[n].parent)

RECURSIVE IdStrFrom(_, _, _)
IdStrFrom(h, p, string) ==
    IF p = NoParent THEN string
    ELSE IdStrFrom(h, h[p].parent, h[p].title \o " --> " \o string)

_id_str(h, n) == IdStrFrom(h, h[n].parent, h[n].title)

\* The objects reachable from object n through sections lists, n included.
RECURSIVE Subtree(_, _)
RECURSIVE SubtreeOfEach(_, _, _)
Subtree(h, n) == {n} \cup SubtreeOfEach(h, h[n].sections, 1)
SubtreeOfEach(h, secs, i) ==
    IF i > Len(secs) THEN {}
    ELSE Subtree(h, secs[i]) \cup SubtreeOfEach(h, secs, i + 1)

Range(s) == {s[i] : i \in 1..Len(s)}

(***************************************************************************)
(* remove_empty_sections(paper)                                            *)
(***************************************************************************)
\* One character off: a text of exactly MIN_SECTION_LENGTH characters goes too.
TooShortMutant(text) == StrippedLen(text) <= MIN_SECTION_LENGTH

TooShort(text) == StrippedLen(text) < MIN_SECTION_LENGTH

RECURSIVE remove_empty_sections(_, _)
RECURSIVE RemoveEmptyEach(_, _, _)
remove_empty_sections(h, paper) ==
    LET new_sections == SelectSeq(h[paper].sections, LAMBDA s : ~TooShort(h[s].text))
        modified == \E s \in Range(h[paper].sections) : TooShort(h[s].text)
        h1 == IF modified THEN [h EXCEPT ![paper].sections = new_sections] ELSE h
    IN  RemoveEmptyEach(h1, h1[paper].sections, 1)
RemoveEmptyEach(h, secs, i) ==
    IF i > Len(secs) THEN h
    ELSE RemoveEmptyEach(remove_empty_sections(h, secs[i]), secs, i + 1)

(***************************************************************************)
(* fix_letter_subsections(paper): not recursive.                           *)
(***************************************************************************)
\* section.title in "Headers"
TitleInHeaders(t) == Contains("Headers", t)

\* all(["Subsection" in subsection.title for subsection in subsections])
AllSubsections(h, subsections) ==
    \A s \in Range(subsections) : Contains(h[s].title, "Subsection")

\* for subsection in subsections: subsection.parent = paper
RECURSIVE Reparent(_, _, _, _)
ReparentMutant(h, subsections, i, paper) == h

Reparent(h, subsections, i, paper) ==
    IF i > Len(subsections) THEN h
    ELSE Reparent([h EXCEPT ![subsections[i]].parent = paper], subsections, i + 1, paper)

\* The loop over paper.sections; acc = [h, new_sections, changed].
RECURSIVE FixLetterLoop(_, _, _, _)
FixLetterLoop(acc, paper, secs, i) ==
    IF i > Len(secs) THEN acc
    ELSE LET section == secs[i]
             subsections == acc.h[section].sections
         IN  IF TitleInHeaders(acc.h[section].title)
             THEN IF Len(subsections) > 0 /\ AllSubsections(acc.h, subsections)
                  THEN FixLetterLoop([h |-> Reparent(acc.h, subsections, 1, paper),
                                      new_sections |-> acc.new_sections \o subsections,
                                      changed |-> TRUE], paper, secs, i + 1)
                  ELSE FixLetterLoop(acc, paper, secs, i + 1)
             ELSE FixLetterLoop([acc EXCEPT !.new_sections = Append(@, section)],
                                paper, secs, i + 1)

fix_letter_subsections(h, paper) ==
    LET acc == FixLetterLoop([h |-> h, new_sections |-> <<>>, changed |-> FALSE],
                             paper, h[paper].sections, 1)
    IN  IF acc.changed THEN [acc.h EXCEPT ![paper].sections = acc.new_sections]
        ELSE acc.h

(***************************************************************************)
(* collapse_lone_subsections(paper)                                        *)
(***************************************************************************)
\* subsection.title = f"{section.title} - {subsection.title}"
MergedTitle(section_title, subsection_title) ==
    section_title \o " - " \o subsection_title

RECURSIVE CollapseLoop(_, _, _, _)
CollapseLoop(acc, paper, secs, i) ==
    IF i > Len(secs) THEN acc
    ELSE LET section == secs[i]
             subsections == acc.h[section].sections
         IN  IF Len(subsections) = 1
             THEN LET subsection == subsections[1]
                      h1 == Reparent(acc.h, subsections, 1, paper)
                      h2 == [h1 EXCEPT ![subsection].title =
                                MergedTitle(acc.h[section].title, @)]
                  IN  CollapseLoop([h |-> h2,
                                    new_sections |-> Append(acc.new_sections, subsection),
                                    changed |-> TRUE], paper, secs, i + 1)
             ELSE CollapseLoop([acc EXCEPT !.new_sections = Append(@, section)],
                               paper, secs, i + 1)

RECURSIVE collapse_lone_subsections(_, _)
RECURSIVE CollapseEach(_, _, _)
collapse_lone_subsections(h, paper) ==
    LET acc == CollapseLoop([h |-> h, new_sections |-> <<>>, changed |-> FALSE],
                            paper, h[paper].sections, 1)
        h1 == IF acc.changed THEN [acc.h EXCEPT ![paper].sections = acc.new_sections]
              ELSE acc.h
    IN  CollapseEach(h1, h1[paper].sections, 1)
CollapseEach(h, secs, i) ==
    IF i > Len(secs) THEN h
    ELSE CollapseEach(collapse_lone_subsections(h, secs[i]), secs, i + 1)

(***************************************************************************)
(* PaperTree.__init__ / split_to_sections: the trees construction yields.  *)
(* Objects are numbered in document order (preorder), so a node's children *)
(* in increasing number are its sections list.  A node's split is the rule *)
(* of split_to_sections that produced its children:                        *)
(*   heading     lines 74-99:   "Headers", then one child per heading      *)
(*   figure      lines 101-126: float children only (leaves with caption)  *)
(*   Subsection  lines 137-159: more than MAX_CHUNKS chunks, grouped       *)
(*   Chunk       lines 162-171: 2..MAX_CHUNKS chunks                       *)
(* and appendix (lines 55-72) adds a last child "Appendix" to the children *)
(* of the text before the marker.                                          *)
(***************************************************************************)
RECURSIVE AncSelf(_, _)
AncSelf(par, i) == {i} \cup (IF par[i] = NoParent THEN {} ELSE AncSelf(par, par[i]))

\* Parent vectors of n objects in preorder; many_roots allows a forest.
RECURSIVE ParentVectors(_, _)
ParentVectors(n, many_roots) ==
    IF n = 1 THEN {<<NoParent>>}
    ELSE UNION {{Append(par, q) : q \in AncSelf(par, n - 1)
                                      \cup (IF many_roots THEN {NoParent} ELSE {})}
                : par \in ParentVectors(n - 1, many_roots)}

RECURSIVE SortedSeq(_)
SortedSeq(S) ==
    IF S = {} THEN <<>>
    ELSE LET m == CHOOSE x \in S : \A y \in S : x <= y
         IN  <<m>> \o SortedSeq(S \ {m})

ChildrenOf(par, p) == SortedSeq({i \in DOMAIN par : par[i] = p})

IndexIn(seq, x) == CHOOSE i \in 1..Len(seq) : seq[i] = x

Leaf == [body |-> "none", appendix |-> FALSE]

\* The rule that made object i, from its parent's split and its position.
RoleOf(par, split, i) ==
    IF par[i] = NoParent THEN "root"
    ELSE LET sibs == ChildrenOf(par, par[i])
             k == split[par[i]]
         IN  IF k.appendix /\ i = sibs[Len(sibs)] THEN "Appendix"
             ELSE IF k.body = "heading" /\ i = sibs[1] THEN "Headers"
             ELSE k.body

\* The splits object i can have, given the splits of the objects before it.
SplitsFor(par, split, i) ==
    LET c == Len(ChildrenOf(par, i))
        role == RoleOf(par, split, i)
    IN  IF c = 0 THEN {Leaf}
        ELSE IF role = "figure" THEN {}      \* keep_splitting = False
        ELSE {k \in [body : {"none", "heading", "figure", "Subsection", "Chunk"},
                     appendix : (IF role = "root" THEN BOOLEAN ELSE {FALSE})] :
                LET j == c - (IF k.appendix THEN 1 ELSE 0)
                IN  /\ (k.body = "none") = (j = 0)
                    /\ k.body \in {"heading", "Subsection", "Chunk"} => j >= 2
                    /\ k.body \in {"Subsection", "Chunk"} => j <= MAX_CHUNKS
                    \* floats were removed from the text a chunk or group is cut from
                    /\ k.body = "figure" => role \notin {"Subsection", "Chunk"}
                    \* a chunk fits the token budget: only a heading splits it again
                    /\ role = "Chunk" => k.body = "heading"}

RECURSIVE SplitVectors(_, _)
SplitVectors(par, n) ==
    IF n = 0 THEN {<<>>}
    ELSE UNION {{Append(split, k) : k \in SplitsFor(par, split, n)}
                : split \in SplitVectors(par, n - 1)}

HeadingTitles == {"A", ""}
LeafTexts == {[chars |-> 10, spaces |-> 45], [chars |-> 50, spaces |-> 5]}
Caption == [chars |-> 9, spaces |-> 2]
GivenAbstract == [chars |-> 60, spaces |-> 10]

\* The characters of the parent's text that belong to no child: the command
\* that starts the child.
CommandChars(role, child_title) ==
    CASE role = "heading"  -> Len("\\section{") + Len(child_title) + Len("}")
      [] role = "Appendix" -> Len("\\appendix")
      [] role = "figure"   -> Len("\\begin{figure}") + Len("\\end{figure}")
      [] OTHER             -> 0

RECURSIVE SumOver(_, _, _)
SumOver(f, seq, i) == IF i > Len(seq) THEN 0 ELSE f[seq[i]] + SumOver(f, seq, i + 1)

\* The heap after PaperTree(title, text, abstract = root_abstract) returned.
ConstructedTree(par, split, leaf_text, heading_title, root_title, root_abstract) ==
    LET n == Len(par)
        role == [i \in 1..n |-> RoleOf(par, split, i)]
        kids == [i \in 1..n |-> ChildrenOf(par, i)]
        ttl == [i \in 1..n |->
                  CASE role[i] = "root"     -> root_title[i]
                    [] role[i] = "Appendix" -> "Appendix"
                    [] role[i] = "Headers"  -> "Headers"
                    [] role[i] = "heading"  -> heading_title[i]
                    [] OTHER -> role[i] \o " " \o ToString(IndexIn(kids[par[i]], i) - 1)]
        cmd == [i \in 1..n |-> CommandChars(role[i], ttl[i])]
        chars[i \in 1..n] ==
            IF kids[i] = <<>> THEN leaf_text[i].chars
            ELSE SumOver(chars, kids[i], 1) + SumOver(cmd, kids[i], 1)
        spaces[i \in 1..n] ==
            IF kids[i] = <<>> THEN leaf_text[i].spaces
            ELSE SumOver(spaces, kids[i], 1) + Len(kids[i])
        txt == [i \in 1..n |-> [chars |-> chars[i], spaces |-> spaces[i]]]
        given == [i \in 1..n |->
                    CASE role[i] = "root"   -> root_abstract[i]
                      [] role[i] = "figure" -> <<Caption>>
                      [] OTHER              -> None]
    IN  [i \in 1..n |->
            [title |-> ttl[i], text |-> txt[i],
             \* if len(self.sections) == 0 and self.abstract is None: abstract = text
             abstract |-> IF kids[i] = <<>> /\ given[i] = None THEN <<txt[i]>>
                          ELSE given[i],
             sections |-> kids[i], parent |-> par[i]]]

LeavesOf(par) == {i \in DOMAIN par : ChildrenOf(par, i) = <<>>}
HeadingsOf(par, split) == {i \in DOMAIN par : RoleOf(par, split, i) = "heading"}
RootsOf(par) == {i \in DOMAIN par : par[i] = NoParent}

(***************************************************************************)
(* The variables of the parts a specification leaves out stay as below.    *)
(***************************************************************************)
EmptyDict == [x \in {} |-> x]

NoTree == /\ tree = <<>> /\ papers = <<>> /\ last = "" /\ stage = <<>>
NoSplit == /\ len_chunks = 0 /\ split_text = [chars |-> 0, spaces |-> 0]
           /\ split_sections = <<>> /\ split_pc = ""
NoRetriever == /\ cls = "" /\ id_to_paper = EmptyDict /\ level_zero = <<>>
               /\ collection = EmptyDict
NoQuery == /\ pc = "" /\ n_results = 0 /\ sim = EmptyDict /\ rel = EmptyDict
           /\ focus_ids = <<>> /\ final_results = <<>>
           /\ id_to_relevance = EmptyDict /\ iterations = 0 /\ scored_ids = <<>>
           /\ error = ""
NoBuild == /\ document = <<>> /\ built = <<>> /\ build_pc = ""
NoGroup == /\ body = <<>> /\ chunks = <<>> /\ section_texts = <<>>
NoConc == calls = <<>>
NoClient == /\ client = EmptyDict /\ retrievers = EmptyDict
NoFlat == /\ rag_chunks = <<>> /\ rag_ids = <<>>
NoExt == NoBuild /\ NoGroup /\ NoConc /\ NoClient /\ NoFlat

(***************************************************************************)
(* TreeSpec: one document tree after construction, then the three passes   *)
(* on its root, in any order and any number of times.                      *)
(***************************************************************************)
root == papers[1]

TreeInit ==
    /\ \E n \in 1..MaxNodes : \E par \in ParentVectors(n, FALSE) :
       \E split \in SplitVectors(par, n) :
       \E leaf_text \in [LeavesOf(par) -> LeafTexts] :
       \E heading_title \in [HeadingsOf(par, split) -> HeadingTitles] :
       \E root_abstract \in [{1} -> {None, <<GivenAbstract>>}] :
           tree = ConstructedTree(par, split, leaf_text, heading_title,
                                  [i \in {1} |-> "P"], root_abstract)
    /\ papers = <<1>>
    /\ last = "__init__"
    /\ stage = <<>>
    /\ NoSplit /\ NoRetriever /\ NoQuery /\ NoExt

\* The documented order of the passes.
PassOrder == <<"remove_empty_sections", "fix_letter_subsections",
               "collapse_lone_subsections">>

NextStage(pass) ==
    IF Len(stage) < Len(PassOrder) /\ stage # <<"other">>
       /\ pass = PassOrder[Len(stage) + 1]
    THEN Append(stage, pass) ELSE <<"other">>

RemoveEmptySections ==
    /\ tree' = remove_empty_sections(tree, root)
    /\ last' = "remove_empty_sections"
    /\ stage' = NextStage("remove_empty_sections")
    /\ UNCHANGED <<papers, splitVars, ragVars, queryVars, extVars>>

FixLetterSubsections ==
    /\ tree' = fix_letter_subsections(tree, root)
    /\ last' = "fix_letter_subsections"
    /\ stage' = NextStage("fix_letter_subsections")
    /\ UNCHANGED <<papers, splitVars, ragVars, queryVars, extVars>>

CollapseLoneSubsections ==
    /\ tree' = collapse_lone_subsections(tree, root)
    /\ last' = "collapse_lone_subsections"
    /\ stage' = NextStage("collapse_lone_subsections")
    /\ UNCHANGED <<papers, splitVars, ragVars, queryVars, extVars>>

TreeNext == RemoveEmptySections \/ FixLetterSubsections \/ CollapseLoneSubsections

TreeSpec == TreeInit /\ [][TreeNext]_vars

(***************************************************************************)
(* Claims about the document tree (TreeSpec).                              *)
(***************************************************************************)
\* The objects of the document tree: those reachable from the root.
Live == Subtree(tree, root)

\* The tree a heap holds below `paper`: the reachable objects and their fields.
TreeOf(h, paper) == [n \in Subtree(h, paper) |-> h[n]]

\* C5: every node of the tree whose sections list is empty has an abstract
\* that is not None, after construction and after any sequence of passes.
C5_LeafAbstractSet ==
    \A n \in Live : tree[n].sections = <<>> => tree[n].abstract # None

\* C6: each pass is idempotent (running it again right after it ran changes
\* nothing), and so is the sequence remove_empty_sections,
\* fix_letter_subsections, collapse_lone_subsections.
AllPasses(h, paper) ==
    collapse_lone_subsections(
        fix_letter_subsections(remove_empty_sections(h, paper), paper), paper)

C6_PassesIdempotent ==
    /\ last = "remove_empty_sections"
          => TreeOf(remove_empty_sections(tree, root), root) = TreeOf(tree, root)
    /\ last = "fix_letter_subsections"
          => TreeOf(fix_letter_subsections(tree, root), root) = TreeOf(tree, root)
    /\ last = "collapse_lone_subsections"
          => TreeOf(collapse_lone_subsections(tree, root), root) = TreeOf(tree, root)
    /\ stage = PassOrder => TreeOf(AllPasses(tree, root), root) = TreeOf(tree, root)

\* C7: when collapse_lone_subsections(root) has returned, no node below the
\* root has exactly one child, and every child of the root that had exactly
\* one child was replaced, at its position, by that child, titled
\* "{parent_title} - {child_title}".
C7_ChainsFullyCollapsed ==
    [][last' = "collapse_lone_subsections" =>
          /\ \A n \in Live' \ {root} : Len(tree'[n].sections) # 1
          /\ Len(tree'[root].sections) = Len(tree[root].sections)
          /\ \A i \in 1..Len(tree[root].sections) :
                LET section == tree[root].sections[i]
                    now == tree'[root].sections[i]
                IN  IF Len(tree[section].sections) = 1
                    THEN /\ now = tree[section].sections[1]
                         /\ tree'[now].title = MergedTitle(tree[section].title,
                                                            tree[now].title)
                    ELSE now = section]_vars

\* C8: the structure is a rooted tree with consistent links: the root has no
\* parent, and every other node of the tree is in the sections list of
\* exactly one node of the tree, exactly once, and that node is its parent.
\* (With the root's parent None this excludes cycles among the tree's nodes.)
C8_ParentLinksConsistent ==
    /\ tree[root].parent = NoParent
    /\ \A n \in Live \ {root} :
          /\ {p \in Live : n \in Range(tree[p].sections)} = {tree[n].parent}
          /\ Cardinality({i \in 1..Len(tree[tree[n].parent].sections) :
                             tree[tree[n].parent].sections[i] = n}) = 1

\* C8's case: fix_letter_subsections flattened a "Headers" node (it is no
\* longer in the tree while its former children are children of the root)
\* and collapse_lone_subsections then replaced a node by its lone child.
C8_Witness_Reparented ==
    /\ last = "collapse_lone_subsections"
    /\ \E hd \in Nodes \ Live :
          /\ tree[hd].title = "Headers"
          /\ Len(tree[hd].sections) > 1
          /\ \A s \in Range(tree[hd].sections) :
                /\ s \in Live /\ tree[s].parent = root
                /\ ~Contains(tree[s].title, " - ")
    /\ \E n \in Live : tree[n].parent = root /\ Contains(tree[n].title, " - ")

(***************************************************************************)
(* SplitSpec: split_to_sections from line 128 on.  The floats, if any,     *)
(* are already children ("figure i"); the token splitter returned          *)
(* len_chunks chunks of the remaining text.                                *)
(***************************************************************************)
MaxChunkCount == 64    \* bound: the largest number of chunks drawn
MaxFloats == 1         \* bound: the largest number of float children drawn

Min(a, b) == IF a <= b THEN a ELSE b

\* math.ceil(a / b) for integers a >= 0, b > 0
Ceil(a, b) == (a + b - 1) \div b

\* num_sections = min(math.ceil(len(chunks) / (MAX_CHUNKS - 1)), MAX_CHUNKS)
NumSectionsMutant(n) == Ceil(n, MAX_CHUNKS - 1)

NumSections(n) == Min(Ceil(n, MAX_CHUNKS - 1), MAX_CHUNKS)

\* step = math.ceil(len(chunks) / num_sections)
StepMutant(n) == n \div NumSections(n)

Step(n) == Ceil(n, NumSections(n))

\* for i in range(0, len(chunks), step): ... title = f"Subsection {count}" ... count += 1
RECURSIVE SubsectionLoop(_, _, _, _, _)
SubsectionLoop(secs, n, step, i, count) ==
    IF i >= n THEN secs
    ELSE SubsectionLoop(Append(secs, "Subsection " \o ToString(count)),
                        n, step, i + step, count + 1)

\* for i, chunk in enumerate(chunks): title = f"Chunk {i}"
RECURSIVE ChunkLoop(_, _, _)
ChunkLoop(secs, n, i) ==
    IF i >= n THEN secs
    ELSE ChunkLoop(Append(secs, "Chunk " \o ToString(i)), n, i + 1)

ChunkSectionsMutant(secs, n, txt) ==
    IF n > MAX_CHUNKS THEN SubsectionLoop(secs, n, Step(n), 0, 0)
    ELSE IF n > 1 THEN ChunkLoop(secs, n, 0)
    ELSE IF Len(secs) > 0 /\ StrippedLen(txt) >= MIN_SECTION_LENGTH
         THEN Append(secs, "Chunk 0")
    ELSE secs

\* The list split_to_sections returns, from the list of float children secs,
\* the number n of chunks and the text left after float removal.
ChunkSections(secs, n, txt) ==
    IF n > MAX_CHUNKS THEN SubsectionLoop(secs, n, Step(n), 0, 0)
    ELSE IF n > 1 THEN ChunkLoop(secs, n, 0)
    ELSE IF Len(secs) > 0 /\ StrippedLen(txt) > MIN_SECTION_LENGTH
         THEN Append(secs, "Chunk 0")
    ELSE secs

\* for i, element in enumerate(element_list): title = f"{key} {i}"
FloatTitles(k) == [i \in 1..k |-> "figure " \o ToString(i - 1)]

RestTexts == {[chars |-> 50, spaces |-> 5], [chars |-> 51, spaces |-> 5]}

SplitInit ==
    /\ len_chunks \in 0..MaxChunkCount
    /\ split_text \in RestTexts
    /\ \E k \in 0..MaxFloats : split_sections = FloatTitles(k)
    /\ split_pc = "chunking"
    /\ NoTree /\ NoRetriever /\ NoQuery /\ NoExt

SplitChunks ==
    /\ split_pc = "chunking"
    /\ split_sections' = ChunkSections(split_sections, len_chunks, split_text)
    /\ split_pc' = "returned"
    /\ UNCHANGED <<len_chunks, split_text, treeVars, ragVars, queryVars, extVars>>

SplitNext == SplitChunks

SplitSpec == SplitInit /\ [][SplitNext]_vars

(***************************************************************************)
(* Claims about the chunking (SplitSpec).                                  *)
(***************************************************************************)
IsFloatTitle(t) == Len(t) >= 6 /\ SubSeq(t, 1, 6) = "figure"

\* The children that come from token chunking: those after the floats.
ChunkChildren == SelectSeq(split_sections, LAMBDA t : ~IsFloatTitle(t))

\* C9: a node whose children all come from token chunking (no float child)
\* has at most 8 children, whatever the number of chunks.
C9_BranchingBound ==
    (split_pc = "returned" /\ ChunkChildren = split_sections)
        => Len(split_sections) <= 8

\* C9's case: so many chunks that the cap of 8 groups decides the count.
C9_Witness_Capped ==
    /\ split_pc = "returned" /\ ChunkChildren = split_sections
    /\ len_chunks > 7 * 8 /\ Len(split_sections) = 8

\* C10: with n > 8 chunks the "Subsection i" children are exactly
\* min(ceil(n / 7), 8) many, numbered 0, 1, ..., count - 1 in order.
C10_SubsectionCount ==
    (split_pc = "returned" /\ len_chunks > 8) =>
        /\ Len(ChunkChildren) = Min(Ceil(len_chunks, 7), 8)
        /\ \A i \in 1..Len(ChunkChildren) :
              ChunkChildren[i] = "Subsection " \o ToString(i - 1)

\* C10's case: a chunk count whose groups are not all of the same size
\* (23 chunks: ceil(23/7) = 4 groups of step 6, the last one of 5).
C10_Witness_UnevenGroups ==
    /\ split_pc = "returned" /\ len_chunks = 23
    /\ ChunkChildren = <<"Subsection 0", "Subsection 1", "Subsection 2", "Subsection 3">>

(***************************************************************************)
(* LevelSearchRAG and LevelSearchRerankRAG (rag.py).  __init__, add_paper  *)
(* and build_collection of the two classes are the same code.              *)
(***************************************************************************)
MaxForestNodes == 4    \* bound: PaperTree objects of the forest a retriever is built on
MaxResults == 2        \* bound: the largest n_results drawn
RerankCandidates == 15 \* n_results of the index query in LevelSearchRerankRAG.query

Titles == {"A", "B"}

\* dict[key] = value
DictSet(d, key, value) == (key :> value) @@ d

\* The document f"{paper._id_str()} \n {paper.abstract}"
Document(h, paper) == [id |-> _id_str(h, paper), abstract |-> h[paper].abstract]

\* add_paper(paper), on acc = [id_to_paper, level_zero]
RECURSIVE add_paper(_, _, _)
RECURSIVE AddPaperEach(_, _, _, _)
add_paper(acc, h, paper) ==
    LET id == _id_str(h, paper)
        acc1 == IF h[paper].abstract # None
                THEN [id_to_paper |-> DictSet(acc.id_to_paper, id, paper),
                      level_zero |-> IF get_depth(h, paper) = 0
                                     THEN Append(acc.level_zero, id)
                                     ELSE acc.level_zero]
                ELSE acc
    IN  AddPaperEach(acc1, h, h[paper].sections, 1)
AddPaperEach(acc, h, secs, i) ==
    IF i > Len(secs) THEN acc
    ELSE AddPaperEach(add_paper(acc, h, secs[i]), h, secs, i + 1)

\* __init__: for id in papers: self.add_paper(papers[id])
AddPapers(h, roots) ==
    AddPaperEach([id_to_paper |-> EmptyDict, level_zero |-> <<>>], h, roots, 1)

\* build_collection: one document per key of id_to_paper
BuildCollection(h, dict) == [id \in DOMAIN dict |-> Document(h, dict[id])]

\* All strict rankings of the ids of S: the higher the number, the better.
Rankings(S) ==
    {f \in [S -> 1..Cardinality(S)] : \A x, y \in S : x # y => f[x] # f[y]}

\* The retriever after __init__ returned, on a forest of PaperTree objects
\* whose titles and abstracts the caller chose.  np.vstack raises on an empty
\* list of batches, so a retriever exists only if some object was indexed.
Init ==
    /\ \E n \in 1..MaxForestNodes : \E par \in ParentVectors(n, TRUE) :
       \E ttl \in [1..n -> Titles] :
       \E abs \in [1..n -> {None, <<GivenAbstract>>}] :
          /\ tree = [i \in 1..n |->
                       [title |-> ttl[i], text |-> GivenAbstract, abstract |-> abs[i],
                        sections |-> ChildrenOf(par, i), parent |-> par[i]]]
          /\ papers = SortedSeq(RootsOf(par))
    /\ last = "__init__" /\ stage = <<>>
    /\ cls \in {"LevelSearchRAG", "LevelSearchRerankRAG"}
    /\ LET acc == AddPapers(tree, papers)
       IN  /\ id_to_paper = acc.id_to_paper
           /\ level_zero = acc.level_zero
           /\ collection = BuildCollection(tree, acc.id_to_paper)
    /\ DOMAIN id_to_paper # {}
    /\ pc = "idle" /\ n_results = 0 /\ sim = EmptyDict /\ rel = EmptyDict
    /\ focus_ids = <<>> /\ final_results = <<>>
    /\ id_to_relevance = EmptyDict /\ iterations = 0 /\ scored_ids = <<>>
    /\ error = ""
    /\ NoSplit /\ NoExt

(***************************************************************************)
(* The vector index (chromadb), as query uses it.                          *)
(***************************************************************************)
\* The ids of S in descending order of score, at most n of them.
RECURSIVE TopBy(_, _, _)
TopBy(score, S, n) ==
    IF S = {} \/ n = 0 THEN <<>>
    ELSE LET best == CHOOSE x \in S : \A y \in S : score[y] <= score[x]
         IN  <<best>> \o TopBy(score, S \ {best}, n - 1)

\* collection.query(query_embeddings = [e], n_results = n, where = {"id": {"$in": ids}}):
\* a dict with one list per query embedding under each of its keys; documents
\* outside the filter are never returned.
collection_query(ids, n) ==
    LET hits == TopBy(sim, {id \in DOMAIN collection : id \in Range(ids)}, n)
    IN  [ids |-> <<hits>>,
         documents |-> <<[i \in 1..Len(hits) |-> collection[hits[i]]]>>,
         metadatas |-> <<[i \in 1..Len(hits) |-> [id |-> hits[i]]]>>,
         distances |-> <<[i \in 1..Len(hits) |-> sim[hits[i]]]>>]

\* len(result): the number of keys of the dict
LenDict(d) == Cardinality(DOMAIN d)

RemoveFirstMutant(list, x) == list

\* list.remove(x): removes the first occurrence
RemoveFirst(list, x) ==
    LET i == CHOOSE j \in 1..Len(list) : list[j] = x /\ \A k \in 1..(j - 1) : list[k] # x
    IN  SubSeq(list, 1, i - 1) \o SubSeq(list, i + 1, Len(list))

\* for section in best_paper.sections: focus_ids.append(section._id_str())
SectionIds(h, paper) ==
    [i \in 1..Len(h[paper].sections) |-> _id_str(h, h[paper].sections[i])]

\* while len(focus_ids) > 0 and len(final_results) < n_results
LoopConditionMutant(focus, results, k) == Len(focus) > 0 /\ Len(results) <= k

LoopCondition(focus, results, k) == Len(focus) > 0 /\ Len(results) < k

(***************************************************************************)
(* query(query, n_results).  pc is the position in the method: "idle"      *)
(* before the call, "while" at the loop test, "returned" after return,     *)
(* "raised" when an exception left the method.  sim orders the documents   *)
(* by similarity to the query embedding, rel by reranker score.            *)
(***************************************************************************)
\* The forest holds fewer documents than the reranker's shortlist, so the
\* shortlist is every matching document whatever the similarity order.
SimilarityOrders(k) ==
    IF cls = "LevelSearchRAG" THEN Rankings(DOMAIN collection)
    ELSE {CHOOSE f \in Rankings(DOMAIN collection) : TRUE}

RelevanceScores(k) ==
    IF cls = "LevelSearchRAG" THEN {EmptyDict}
    ELSE Rankings(DOMAIN collection)

\* focus_ids = list(self.level_zero): focus_ids is a copy, so self.level_zero
\* is what it was whatever the loop body made of focus_ids.
LevelZeroMutant(own, focus) == focus

LevelZero(own, focus) == own

\* The statements before the loop.
StartQuery ==
    /\ pc = "idle"
    /\ \E k \in 0..MaxResults : \E s \in SimilarityOrders(k) : \E r \in RelevanceScores(k) :
          /\ n_results' = k
          /\ sim' = s
          /\ rel' = r
    /\ focus_ids' = level_zero
    /\ final_results' = <<>>
    /\ id_to_relevance' = EmptyDict
    /\ iterations' = 0
    /\ scored_ids' = <<>>
    /\ error' = ""
    /\ pc' = "while"
    /\ UNCHANGED <<treeVars, splitVars, ragVars, extVars>>

\* What the tail of the loop body does with best_id, shared by both classes.
Descend(best_id, best_document, relevance) ==
    LET best_paper == id_to_paper[best_id]
        focus1 == RemoveFirst(focus_ids, best_id)
    IN  /\ id_to_relevance' = relevance
        /\ IF Len(tree[best_paper].sections) > 0
           THEN /\ focus_ids' = focus1 \o SectionIds(tree, best_paper)
                /\ final_results' = final_results
           ELSE /\ focus_ids' = focus1
                /\ final_results' = Append(final_results, <<best_id, best_document>>)
        /\ pc' = "while"
        /\ error' = ""

Raise(exception) ==
    /\ pc' = "raised"
    /\ error' = exception
    /\ UNCHANGED <<focus_ids, final_results, id_to_relevance>>

Break ==
    /\ pc' = "returned"
    /\ UNCHANGED <<focus_ids, final_results, id_to_relevance, error>>

\* One iteration of the loop of LevelSearchRAG.query
LevelSearchIteration ==
    /\ cls = "LevelSearchRAG"
    /\ pc = "while"
    /\ LoopCondition(focus_ids, final_results, n_results)
    /\ LET result == collection_query(focus_ids, n_results)
       IN  IF LenDict(result) = 0 THEN Break
           ELSE IF Len(result.ids[1]) = 0 THEN Raise("IndexError")
           ELSE Descend(result.ids[1][1], result.documents[1][1], id_to_relevance)
    /\ iterations' = iterations + 1
    /\ scored_ids' = scored_ids
    /\ level_zero' = LevelZero(level_zero, focus_ids')
    /\ UNCHANGED <<n_results, sim, rel, cls, id_to_paper, collection, treeVars,
                   splitVars, extVars>>

\* needs_relevance_ids: the ids of the shortlist that are not keys of the cache
NeedsRelevance(cache, ids) == SelectSeq(ids, LAMBDA id : id \notin DOMAIN cache)

\* The ids of the shortlist that have no cached relevance get the reranker's.
Rescore(cache, ids) ==
    [id \in DOMAIN cache \cup Range(ids) |->
        IF id \in DOMAIN cache THEN cache[id] ELSE rel[id]]

\* dict.pop(key)
Pop(d, key) == [id \in DOMAIN d \ {key} |-> d[id]]

\* One iteration of the loop of LevelSearchRerankRAG.query
RerankIteration ==
    /\ cls = "LevelSearchRerankRAG"
    /\ pc = "while"
    /\ LoopCondition(focus_ids, final_results, n_results)
    /\ LET result == collection_query(focus_ids, RerankCandidates)
           scored == Rescore(id_to_relevance, result.ids[1])
       IN  /\ IF LenDict(result) = 0 THEN Break
              ELSE IF DOMAIN scored = {} THEN Raise("ValueError")
              ELSE LET best_id == CHOOSE x \in DOMAIN scored :
                                     \A y \in DOMAIN scored : scored[y] <= scored[x]
                   IN  Descend(best_id, Document(tree, id_to_paper[best_id]),
                               Pop(scored, best_id))
           /\ scored_ids' = IF LenDict(result) = 0 THEN scored_ids
                            ELSE scored_ids \o NeedsRelevance(id_to_relevance, result.ids[1])
    /\ iterations' = iterations + 1
    /\ level_zero' = LevelZero(level_zero, focus_ids')
    /\ UNCHANGED <<n_results, sim, rel, cls, id_to_paper, collection, treeVars,
                   splitVars, extVars>>

\* The loop test fails: return final_results
Return ==
    /\ pc = "while"
    /\ ~LoopCondition(focus_ids, final_results, n_results)
    /\ pc' = "returned"
    /\ UNCHANGED <<n_results, sim, rel, focus_ids, final_results, id_to_relevance,
                   iterations, scored_ids, error, treeVars, splitVars, ragVars, extVars>>

\* The call is over; the retriever is ready for the next one.
Finish ==
    /\ pc \in {"returned", "raised"}
    /\ pc' = "idle" /\ n_results' = 0 /\ sim' = EmptyDict /\ rel' = EmptyDict
    /\ focus_ids' = <<>> /\ final_results' = <<>>
    /\ id_to_relevance' = EmptyDict /\ iterations' = 0 /\ scored_ids' = <<>>
    /\ error' = ""
    /\ UNCHANGED <<treeVars, splitVars, ragVars, extVars>>

Next ==
    \/ StartQuery
    \/ LevelSearchIteration
    \/ RerankIteration
    \/ Return
    \/ Finish

Spec == Init /\ [][Next]_vars

(***************************************************************************)
(* Claims about the hierarchical retrievers, checked under Spec.           *)
(***************************************************************************)
\* C1: in both retrievers the list of results never holds more than
\* n_results entries, and every id in it is the id of a node of the forest
\* that has no sections.
C1_ResultBound ==
    /\ Len(final_results) <= n_results
    /\ \A i \in 1..Len(final_results) :
          \E n \in Nodes : /\ _id_str(tree, n) = final_results[i][1]
                           /\ tree[n].sections = <<>>

\* A query for two results returned two different leaves, below the level of
\* the papers, while ids were still waiting in the frontier.
C1_Witness_StoppedAtK ==
    /\ pc = "returned"
    /\ n_results = 2
    /\ Len(final_results) = 2
    /\ final_results[1][1] # final_results[2][1]
    /\ \A i \in 1..2 : final_results[i][1] \notin Range(level_zero)
    /\ Len(focus_ids) > 0

\* No id of the frontier is in the vector index.
NothingIndexed(focus) == \A i \in 1..Len(focus) : focus[i] \notin DOMAIN collection

\* C2: when the frontier can yield no further result while fewer than
\* n_results results are collected, the next step of query returns the
\* results collected so far and raises nothing.
C2_ExhaustionReturnsShort ==
    [][(pc = "while" /\ Len(final_results) < n_results /\ NothingIndexed(focus_ids))
         => (pc' = "returned" /\ final_results' = final_results)]_vars

\* C3: a step of query taken while the frontier holds an id that is not in
\* the vector index never raises.
C3_UnknownIdNeverRaises ==
    [][(pc = "while" /\ \E i \in 1..Len(focus_ids) : focus_ids[i] \notin DOMAIN collection)
         => pc' # "raised"]_vars

\* C4: the loop runs at most once per node of the forest, and query is over
\* only by returning with the frontier empty or with n_results results.
C4_LoopBounded ==
    /\ iterations <= Cardinality(Nodes)
    /\ pc \in {"returned", "raised"} =>
          /\ pc = "returned"
          /\ Len(focus_ids) = 0 \/ Len(final_results) = n_results

(***************************************************************************)
(* PaperTree.__init__ and split_to_sections on the text itself.  A text is *)
(* a sequence of tokens: the commands the regular expressions of           *)
(* split_to_sections look for, and words.  A token is the unit of the      *)
(* token splitter: section_max_tokens counts tokens of this kind.          *)
(*   kind "appendix"  \appendix and the whitespace character after it      *)
(*   kind "heading"   \section{..}, \subsection{..}: depth counts the      *)
(*                    "sub"s, arg is the braced argument, braces included  *)
(*   kind "begin", "end"  \begin{figure}, \end{figure}: arg is the name    *)
(*   kind "caption"   \caption{..}: arg is the braced argument             *)
(*   kind "word"      running text of `chars` non-whitespace characters    *)
(***************************************************************************)
MaxDocLen == 4        \* bound: tokens of a document over every kind of token
MaxOutlineLen == 6    \* bound: tokens of a document of headings, appendix markers and words
MaxTokens == 2        \* bound: the largest section_max_tokens drawn

Tok(kind, depth, arg, chars) == [kind |-> kind, depth |-> depth, arg |-> arg, chars |-> chars]
AppendixMarker == Tok("appendix", 0, "", Len("\\appendix"))
HeadingCmd(depth, arg) ==
    Tok("heading", depth, arg, Len("\\section") + depth * Len("sub") + Len(arg))
BeginCmd(element) == Tok("begin", 0, element, Len("\\begin{}") + Len(element))
EndCmd(element) == Tok("end", 0, element, Len("\\end{}") + Len(element))
CaptionCmd(arg) == Tok("caption", 0, arg, Len("\\caption") + Len(arg))
Word(chars) == Tok("word", 0, "", chars)

\* text[a:b] with 0 <= a, b <= len(text), on tokens (0-based, b exclusive)
Slice(text, a, b) == SubSeq(text, a + 1, b)

\* len(re.sub(r"\s+", "", text))
RECURSIVE TextChars(_)
TextChars(text) == IF text = <<>> THEN 0 ELSE Head(text).chars + TextChars(Tail(text))

\* lines 56-63: the match of r"\\appendix\s" that comes last
IsAppendix(t) == t.kind = "appendix"

\* line 76: the command of the heading level `depth`
IsHeading(t, depth) == t.kind = "heading" /\ t.depth = depth

\* line 89: match.group(2)[1:-1]
HeadingTitleMutant(t) == t.arg

HeadingTitle(t) == SubSeq(t.arg, 2, Len(t.arg) - 1)

\* lines 104-109 for one element name: the matches of
\* \begin{element}(.*?)\end{element}, leftmost first, each ending at the
\* nearest \end; result [elements: the group of each match, text: the text
\* with the matches removed].
RECURSIVE ExtractElements(_, _, _)
ExtractElements(text, element, acc) ==
    LET begins == {i \in 1..Len(text) :
                     /\ text[i] = BeginCmd(element)
                     /\ \E j \in (i + 1)..Len(text) : text[j] = EndCmd(element)}
    IN  IF begins = {} THEN [elements |-> acc.elements, text |-> acc.text \o text]
        ELSE LET b == CHOOSE i \in begins : \A k \in begins : i <= k
                 e == CHOOSE j \in (b + 1)..Len(text) :
                         /\ text[j] = EndCmd(element)
                         /\ \A k \in (b + 1)..(j - 1) : text[k] # EndCmd(element)
             IN  ExtractElements(SubSeq(text, e + 1, Len(text)), element,
                                 [elements |-> Append(acc.elements, SubSeq(text, b + 1, e - 1)),
                                  text |-> acc.text \o SubSeq(text, 1, b - 1)])

\* lines 113-118: "".join of the groups of every caption command in the element
RECURSIVE CaptionsOf(_)
CaptionsOf(element) ==
    IF element = <<>> THEN ""
    ELSE (IF Head(element).kind = "caption" THEN Head(element).arg ELSE "")
         \o CaptionsOf(Tail(element))

(***************************************************************************)
(* The token splitter and the grouping of chunks (lines 129-159).          *)
(***************************************************************************)
\* TokenTextSplitter(chunk_size, chunk_overlap).split_text(text): windows of
\* chunk_size tokens, each starting chunk_size - chunk_overlap after the last.
RECURSIVE TokenWindows(_, _, _, _)
TokenWindows(text, start_idx, chunk_size, chunk_overlap) ==
    IF start_idx >= Len(text) THEN <<>>
    ELSE LET cur_idx == Min(start_idx + chunk_size, Len(text))
         IN  <<Slice(text, start_idx, cur_idx)>>
             \o (IF cur_idx = Len(text) THEN <<>>
                 ELSE TokenWindows(text, start_idx + chunk_size - chunk_overlap,
                                   chunk_size, chunk_overlap))

\* lines 129-134
SplitText(text, section_max_tokens) ==
    TokenWindows(text, 0, section_max_tokens, section_max_tokens \div 8)

\* str.find: the lowest index at which sub occurs in text, -1 if it does not
Find(text, sub) ==
    LET at == {i \in 0..(Len(text) - Len(sub)) : Slice(text, i, i + Len(sub)) = sub}
    IN  IF at = {} THEN -1 ELSE CHOOSE i \in at : \A j \in at : i <= j

\* text[a:b] as Python slices: a negative index counts from the end
SliceIndex(text, i) == IF i < 0 THEN (IF Len(text) + i < 0 THEN 0 ELSE Len(text) + i)
                       ELSE Min(i, Len(text))
PySlice(text, a, b) == Slice(text, SliceIndex(text, a), SliceIndex(text, b))

\* The first occurrence, lines 148-149 and 157.
EndIndex(text, chunk) == Find(text, chunk)

\* lines 142-158: the section_text of each "Subsection count", in order
RECURSIVE SubsectionTexts(_, _, _, _, _)
SubsectionTexts(text, chs, step, i, start_index) ==
    IF i >= Len(chs) THEN <<>>
    ELSE IF i + step >= Len(chs) THEN <<PySlice(text, start_index, Len(text))>>
    ELSE LET end_index == EndIndex(text, chs[i + step + 1])
         IN  <<PySlice(text, start_index, end_index)>>
             \o SubsectionTexts(text, chs, step, i + step, end_index)

(***************************************************************************)
(* GroupSpec: lines 129-159 of split_to_sections on a text of words that   *)
(* the splitter cuts into more than MAX_CHUNKS chunks.                     *)
(***************************************************************************)
MaxBodyLen == 10      \* bound: words of the text
GroupTokens == 1      \* bound: the largest section_max_tokens drawn
Words == {Word(3), Word(4)}

GroupInit ==
    /\ \E n \in (MAX_CHUNKS + 1)..MaxBodyLen : body \in [1..n -> Words]
    /\ chunks = <<>>
    /\ section_texts = <<>>
    /\ split_pc = "chunking"
    /\ len_chunks = 0 /\ split_text = [chars |-> 0, spaces |-> 0] /\ split_sections = <<>>
    /\ NoTree /\ NoRetriever /\ NoQuery /\ NoBuild /\ NoConc /\ NoClient /\ NoFlat

\* lines 129-159, when len(chunks) > MAX_CHUNKS
GroupChunks ==
    /\ split_pc = "chunking"
    /\ \E section_max_tokens \in 1..GroupTokens :
          LET chs == SplitText(body, section_max_tokens)
          IN  /\ Len(chs) > MAX_CHUNKS
              /\ chunks' = chs
              /\ len_chunks' = Len(chs)
              /\ section_texts' = SubsectionTexts(body, chs, Step(Len(chs)), 0, 0)
    /\ split_pc' = "returned"
    /\ UNCHANGED <<body, split_text, split_sections, treeVars, ragVars, queryVars,
                   buildVars, concVars, clientVars, flatVars>>

GroupNext == GroupChunks

GroupSpec == GroupInit /\ [][GroupNext]_vars

\* C17: construction terminates, because a child made by split_to_sections
\* gets a text strictly shorter than the text it was cut from; here: every
\* "Subsection i" child.
C17_SubsectionsShrink ==
    \A i \in 1..Len(section_texts) : Len(section_texts[i]) < Len(body)

(***************************************************************************)
(* PaperTree(title, text, abstract, parent, section_max_tokens,            *)
(* keep_splitting) as a value: [title, text, abstract, sections], sections *)
(* the constructed children.  depth is get_depth() of the object, known    *)
(* from its parent before split_to_sections runs (line 17).                *)
(***************************************************************************)
ElementNames == <<"figure", "table", "sidewaystable">>

RECURSIVE PaperTree(_, _, _, _, _, _)
RECURSIVE split_to_sections(_, _, _)
RECURSIVE HeadingLevels(_, _, _, _)
RECURSIVE ExtractAll(_, _, _)

\* lines 78-98: "Headers", then one child per heading at positions pos
HeadingSections(text, pos, depth, section_max_tokens) ==
    [k \in 1..(Len(pos) + 1) |->
        PaperTree(IF k = 1 THEN "Headers" ELSE HeadingTitle(text[pos[k - 1]]),
                  SubSeq(text, IF k = 1 THEN 1 ELSE pos[k - 1] + 1,
                               IF k > Len(pos) THEN Len(text) ELSE pos[k] - 1),
                  None, depth + 1, section_max_tokens, TRUE)]

\* lines 102-109: the elements of each name, and the text without them
ExtractAll(text, k, acc) ==
    IF k > Len(ElementNames) THEN [elements |-> acc, text |-> text]
    ELSE LET found == ExtractElements(text, ElementNames[k],
                                      [elements |-> <<>>, text |-> <<>>])
         IN  ExtractAll(found.text, k + 1, Append(acc, found.elements))

\* lines 110-126: the children made of the elements of the k-th name
FloatSections(elements, k, depth, section_max_tokens) ==
    [i \in 1..Len(elements) |->
        PaperTree(ElementNames[k] \o " " \o ToString(i - 1), elements[i],
                  <<CaptionsOf(elements[i])>>, depth + 1, section_max_tokens, FALSE)]

\* lines 137-183: the children cut from the text left after the elements
TextSections(sections, text, depth, section_max_tokens) ==
    LET chs == SplitText(text, section_max_tokens)
    IN  IF Len(chs) > MAX_CHUNKS
        THEN LET texts == SubsectionTexts(text, chs, Step(Len(chs)), 0, 0)
             IN  sections \o [c \in 1..Len(texts) |->
                                PaperTree("Subsection " \o ToString(c - 1), texts[c],
                                          None, depth + 1, section_max_tokens, TRUE)]
        ELSE IF Len(chs) > 1
        THEN sections \o [i \in 1..Len(chs) |->
                            PaperTree("Chunk " \o ToString(i - 1), chs[i],
                                      None, depth + 1, section_max_tokens, TRUE)]
        ELSE IF Len(sections) > 0 /\ TextChars(text) > MIN_SECTION_LENGTH
        THEN Append(sections, PaperTree("Chunk 0", text, None, depth + 1,
                                        section_max_tokens, TRUE))
        ELSE sections

\* lines 101-183
FloatsAndChunks(text, depth, section_max_tokens) ==
    LET found == ExtractAll(text, 1, <<>>)
        floats == FloatSections(found.elements[1], 1, depth, section_max_tokens)
                  \o FloatSections(found.elements[2], 2, depth, section_max_tokens)
                  \o FloatSections(found.elements[3], 3, depth, section_max_tokens)
    IN  TextSections(floats, found.text, depth, section_max_tokens)

\* lines 75-99: the heading levels 0..get_depth(), the first with a match wins
HeadingLevels(text, level, depth, section_max_tokens) ==
    IF level > depth THEN FloatsAndChunks(text, depth, section_max_tokens)
    ELSE LET pos == SortedSeq({i \in 1..Len(text) : IsHeading(text[i], level)})
         IN  IF pos # <<>> THEN HeadingSections(text, pos, depth, section_max_tokens)
             ELSE HeadingLevels(text, level + 1, depth, section_max_tokens)

\* The last match of the appendix pattern, 0 if there is none.
AppendixLastMutant(text) ==
    LET at == {i \in 1..Len(text) : IsAppendix(text[i])}
    IN  IF at = {} THEN 0 ELSE CHOOSE i \in at : \A j \in at : i <= j

AppendixLast(text) ==
    LET at == {i \in 1..Len(text) : IsAppendix(text[i])}
    IN  IF at = {} THEN 0 ELSE CHOOSE i \in at : \A j \in at : j <= i

\* split_to_sections(text) of an object at depth `depth`
split_to_sections(text, depth, section_max_tokens) ==
    LET m == AppendixLast(text)
    IN  IF m > 0
        THEN Append(split_to_sections(SubSeq(text, 1, m - 1), depth, section_max_tokens),
                    PaperTree("Appendix", SubSeq(text, m + 1, Len(text)), None,
                              depth + 1, section_max_tokens, TRUE))
        ELSE HeadingLevels(text, 0, depth, section_max_tokens)

\* __init__, lines 12-24
PaperTree(title, text, abstract, depth, section_max_tokens, keep_splitting) ==
    LET sections == IF keep_splitting
                    THEN split_to_sections(text, depth, section_max_tokens)
                    ELSE <<>>
    IN  [title |-> title, text |-> text,
         abstract |-> IF Len(sections) = 0 /\ abstract = None THEN <<text>> ELSE abstract,
         sections |-> sections]

(***************************************************************************)
(* BuildSpec: one call PaperTree(title, text, section_max_tokens = s).     *)
(***************************************************************************)
AnyTokens == {AppendixMarker, HeadingCmd(0, "{A}"), HeadingCmd(1, "{B}"),
              BeginCmd("figure"), EndCmd("figure"), CaptionCmd("{Plot of X}"),
              Word(10), Word(51)}
OutlineTokens == {AppendixMarker, HeadingCmd(0, "{A}"), HeadingCmd(0, "{B}"), Word(51)}

Documents ==
    UNION {[1..n -> AnyTokens] : n \in 0..MaxDocLen}
    \cup UNION {[1..n -> OutlineTokens] : n \in (MaxDocLen + 1)..MaxOutlineLen}

BuildInit ==
    /\ \E text \in Documents : \E s \in 1..MaxTokens :
          document = [title |-> "P", text |-> text, section_max_tokens |-> s]
    /\ built = <<>>
    /\ build_pc = "call"
    /\ NoTree /\ NoSplit /\ NoRetriever /\ NoQuery
    /\ NoGroup /\ NoConc /\ NoClient /\ NoFlat

Construct ==
    /\ build_pc = "call"
    /\ built' = PaperTree(document.title, document.text, None, 0,
                          document.section_max_tokens, TRUE)
    /\ build_pc' = "done"
    /\ UNCHANGED <<document, treeVars, splitVars, ragVars, queryVars,
                   groupVars, concVars, clientVars, flatVars>>

BuildNext == Construct

BuildSpec == BuildInit /\ [][BuildNext]_vars

(***************************************************************************)
(* Claims about construction, checked under BuildSpec.                     *)
(***************************************************************************)
TitlesOf(sections) == [i \in 1..Len(sections) |-> sections[i].title]

\* The titles the headings of level 0 at the given positions carry.
TitlesAt(text, pos) == [k \in 1..Len(pos) |-> HeadingTitle(text[pos[k]])]

\* C11: when the text holds an appendix marker, the children of the paper
\* are the children split from the text before the last marker, then one
\* child "Appendix" whose text is the text after that marker; with headings
\* before a single marker the titles are "Headers", the headings in order,
\* "Appendix".
C11_AppendixLast ==
    build_pc = "done" =>
      \A m \in 1..Len(document.text) :
        (/\ IsAppendix(document.text[m])
         /\ \A j \in (m + 1)..Len(document.text) : ~IsAppendix(document.text[j]))
        => LET before == SubSeq(document.text, 1, m - 1)
               n == Len(built.sections)
               pos == SortedSeq({i \in 1..Len(before) : IsHeading(before[i], 0)})
           IN  /\ n >= 1
               /\ built.sections[n].title = "Appendix"
               /\ built.sections[n].text = SubSeq(document.text, m + 1, Len(document.text))
               /\ SubSeq(built.sections, 1, n - 1)
                    = split_to_sections(before, 0, document.section_max_tokens)
               /\ (pos # <<>> /\ \A i \in 1..Len(before) : ~IsAppendix(before[i]))
                  => TitlesOf(built.sections)
                       = <<"Headers">> \o TitlesAt(before, pos) \o <<"Appendix">>

\* Three \section commands and a trailing appendix block.
C11_Witness_ThreeSections ==
    /\ build_pc = "done"
    /\ Len(SelectSeq(document.text, LAMBDA t : IsHeading(t, 0))) = 3
    /\ IsAppendix(document.text[Len(document.text) - 1])
    /\ TitlesOf(built.sections) = <<"Headers", "A", "B", "A", "Appendix">>
    /\ built.sections[5].text = <<Word(51)>>

\* The object and every object below it, in document order.
RECURSIVE NodesOf(_)
RECURSIVE NodesOfEach(_, _)
NodesOf(node) == <<node>> \o NodesOfEach(node.sections, 1)
NodesOfEach(sections, i) ==
    IF i > Len(sections) THEN <<>>
    ELSE NodesOf(sections[i]) \o NodesOfEach(sections, i + 1)

IsFloat(node) == \E k \in 1..Len(ElementNames) : \E i \in 0..MaxDocLen :
                    node.title = ElementNames[k] \o " " \o ToString(i)

\* The caption arguments of an element, each without its enclosing braces.
RECURSIVE CaptionTexts(_)
CaptionTexts(element) ==
    IF element = <<>> THEN ""
    ELSE (IF Head(element).kind = "caption"
          THEN SubSeq(Head(element).arg, 2, Len(Head(element).arg) - 1) ELSE "")
         \o CaptionTexts(Tail(element))

\* C12: a float child ("figure i") is a leaf whose abstract is the
\* concatenation of the caption arguments inside it, braces not included:
\* "Plot of X" for \caption{Plot of X}.
C12_CaptionAbstract ==
    build_pc = "done" =>
      \A n \in 1..Len(NodesOf(built)) :
         LET node == NodesOf(built)[n]
         IN  IsFloat(node) => /\ node.sections = <<>>
                              /\ node.abstract = <<CaptionTexts(node.text)>>

\* The texts of the leaves, concatenated in document order.
RECURSIVE LeafText(_)
RECURSIVE LeafTextEach(_, _)
LeafText(node) ==
    IF node.sections = <<>> THEN node.text ELSE LeafTextEach(node.sections, 1)
LeafTextEach(sections, i) ==
    IF i > Len(sections) THEN <<>>
    ELSE LeafText(sections[i]) \o LeafTextEach(sections, i + 1)

\* C13: the texts of the leaves of the constructed tree, concatenated in
\* document order, are the input text: nothing of the input is missing.
\* (The chunk overlap, section_max_tokens // 8, is 0 for the budgets drawn,
\* and whitespace is not part of a text here.)
C13_RoundTrip ==
    build_pc = "done" => LeafText(built) = document.text

(***************************************************************************)
(* Further claims about the passes, checked under TreeSpec.                *)
(***************************************************************************)
\* Object n and its ancestors, the root left out.
RECURSIVE BelowRootChain(_, _)
BelowRootChain(h, n) ==
    IF h[n].parent = NoParent THEN {} ELSE {n} \cup BelowRootChain(h, h[n].parent)

\* C14: after remove_empty_sections(root) no object below the root has a
\* text of fewer than 50 non-whitespace characters, every object of 50 or
\* more whose ancestors were all kept is still in the tree, and the kept
\* children of an object are in their original order.
C14_ShortSectionsPruned ==
    [][last' = "remove_empty_sections" =>
         /\ \A n \in Subtree(tree', root) \ {root} : tree'[n].text.chars >= 50
         /\ \A n \in Live :
               (\A a \in BelowRootChain(tree, n) : tree[a].text.chars >= 50)
                  => n \in Subtree(tree', root)
         /\ \A n \in Subtree(tree', root) :
               tree'[n].sections
                 = SelectSeq(tree[n].sections, LAMBDA c : tree[c].text.chars >= 50)]_vars

\* remove_empty_sections ran on the constructed tree: a child of fewer than
\* 50 characters is gone and a child of exactly 50 is kept.
C14_Witness_Pruned ==
    /\ stage = <<"remove_empty_sections">>
    /\ \E n \in Nodes \ Live : tree[n].text.chars < 50 /\ tree[n].parent \in Live
    /\ \E n \in Live \ {root} : tree[n].text.chars = 50

\* C15: siblings have distinct titles and the breadcrumb id of every object
\* of the tree is unique.
C15_UniqueIds ==
    /\ \A p \in Live : \A i, j \in 1..Len(tree[p].sections) :
          i # j => tree[tree[p].sections[i]].title # tree[tree[p].sections[j]].title
    /\ \A m, n \in Live : m # n => _id_str(tree, m) # _id_str(tree, n)

(***************************************************************************)
(* DeepSpec: the retrievers of Spec on forests of up to MaxDeepNodes       *)
(* objects that all have an abstract and all have different titles, so     *)
(* that every object is indexed under its own id.                          *)
(***************************************************************************)
MaxDeepNodes == 5      \* bound: PaperTree objects of the forest
MinDeepNodes == 4      \* bound: the fewest objects, a chain three levels deep

DeepInit ==
    /\ \E n \in MinDeepNodes..MaxDeepNodes : \E par \in ParentVectors(n, TRUE) :
          /\ tree = [i \in 1..n |->
                       [title |-> "S" \o ToString(i), text |-> GivenAbstract,
                        abstract |-> <<GivenAbstract>>,
                        sections |-> ChildrenOf(par, i), parent |-> par[i]]]
          /\ papers = SortedSeq(RootsOf(par))
    /\ last = "__init__" /\ stage = <<>>
    /\ cls \in {"LevelSearchRAG", "LevelSearchRerankRAG"}
    /\ LET acc == AddPapers(tree, papers)
       IN  /\ id_to_paper = acc.id_to_paper
           /\ level_zero = acc.level_zero
           /\ collection = BuildCollection(tree, acc.id_to_paper)
    /\ pc = "idle" /\ n_results = 0 /\ sim = EmptyDict /\ rel = EmptyDict
    /\ focus_ids = <<>> /\ final_results = <<>>
    /\ id_to_relevance = EmptyDict /\ iterations = 0 /\ scored_ids = <<>>
    /\ error = ""
    /\ NoSplit /\ NoExt

DeepSpec == DeepInit /\ [][Next]_vars

\* The leaf the query is most similar to.
BestLeaf ==
    LET leaves == {n \in Nodes : tree[n].sections = <<>>}
    IN  CHOOSE n \in leaves :
           \A m \in leaves : sim[_id_str(tree, m)] <= sim[_id_str(tree, n)]

\* The root the loop expands first.
ChosenRoot ==
    CHOOSE r \in Range(papers) :
       \A q \in Range(papers) : sim[_id_str(tree, q)] <= sim[_id_str(tree, r)]

\* C16: LevelSearchRAG.query(q, 1), when the most similar leaf lies three
\* levels deep, returns one result after three expansions (four iterations:
\* each one expands an object or returns a leaf), and the result lies below
\* the root chosen first, not below a root of lower similarity.
C16_DescendsToDeepLeaf ==
    (/\ cls = "LevelSearchRAG" /\ pc = "returned" /\ n_results = 1
     /\ get_depth(tree, BestLeaf) = 3)
    => /\ Len(final_results) = 1
       /\ iterations = 3 + 1
       /\ id_to_paper[final_results[1][1]] \in Subtree(tree, ChosenRoot)

(***************************************************************************)
(* ConcSpec: two threads call query on one LevelSearchRerankRAG.  Every    *)
(* name assigned in query is a local of the call (lines 291-330); the      *)
(* object's attributes are only read.  A call takes two steps per          *)
(* iteration: it scores the shortlist (lines 296-315), then picks the best *)
(* id (lines 317-328).  A cached score carries the call that computed it.  *)
(***************************************************************************)
MaxConcNodes == 3      \* bound: PaperTree objects of the forest
MaxCalls == 2          \* bound: query calls of one thread
Threads == {1, 2}

IdleCall == [pc |-> "idle", call_no |-> 0, n_results |-> 0, rel |-> EmptyDict,
             focus_ids |-> <<>>, final_results |-> <<>>, id_to_relevance |-> EmptyDict]

ConcInit ==
    /\ \E n \in 1..MaxConcNodes : \E par \in ParentVectors(n, TRUE) :
          /\ tree = [i \in 1..n |->
                       [title |-> "S" \o ToString(i), text |-> GivenAbstract,
                        abstract |-> <<GivenAbstract>>,
                        sections |-> ChildrenOf(par, i), parent |-> par[i]]]
          /\ papers = SortedSeq(RootsOf(par))
    /\ last = "__init__" /\ stage = <<>>
    /\ cls = "LevelSearchRerankRAG"
    /\ LET acc == AddPapers(tree, papers)
       IN  /\ id_to_paper = acc.id_to_paper
           /\ level_zero = acc.level_zero
           /\ collection = BuildCollection(tree, acc.id_to_paper)
    \* fewer documents than the shortlist holds: the similarity order has no effect
    /\ sim = CHOOSE f \in Rankings(DOMAIN collection) : TRUE
    /\ pc = "" /\ n_results = 0 /\ rel = EmptyDict
    /\ focus_ids = <<>> /\ final_results = <<>>
    /\ id_to_relevance = EmptyDict /\ iterations = 0 /\ scored_ids = <<>>
    /\ error = ""
    /\ calls = [c \in Threads |-> IdleCall]
    /\ NoSplit /\ NoBuild /\ NoGroup /\ NoClient /\ NoFlat

\* The call whose frame holds the cache that call c uses: its own (line 294).
CacheOwnerMutant(c) == 1

CacheOwner(c) == c

CacheOf(c) == calls[CacheOwner(c)].id_to_relevance

concRest == <<treeVars, splitVars, ragVars, queryVars, buildVars, groupVars,
              clientVars, flatVars>>

\* lines 291-294
ConcStart(c) ==
    /\ calls[c].pc \in {"idle", "returned"}
    /\ calls[c].call_no < MaxCalls
    /\ \E k \in 1..MaxResults : \E r \in Rankings(DOMAIN collection) :
          calls' = [calls EXCEPT ![c] = [pc |-> "while", call_no |-> @.call_no + 1,
                                         n_results |-> k, rel |-> r,
                                         focus_ids |-> level_zero,
                                         final_results |-> <<>>,
                                         id_to_relevance |-> @.id_to_relevance],
                                 ![CacheOwner(c)].id_to_relevance = EmptyDict]
    /\ UNCHANGED concRest

\* lines 295-315: the loop test, the index query, the scores of the ids not cached
ConcScore(c) ==
    /\ calls[c].pc = "while"
    /\ LoopCondition(calls[c].focus_ids, calls[c].final_results, calls[c].n_results)
    /\ LET result == collection_query(calls[c].focus_ids, RerankCandidates)
           ids == result.ids[1]
           scored == [id \in DOMAIN CacheOf(c) \cup Range(ids) |->
                        IF id \in DOMAIN CacheOf(c) THEN CacheOf(c)[id]
                        ELSE [score |-> calls[c].rel[id],
                              by |-> <<c, calls[c].call_no>>]]
       IN  calls' = [calls EXCEPT ![c].pc = "scored",
                                  ![CacheOwner(c)].id_to_relevance = scored]
    /\ UNCHANGED concRest

\* lines 317-328
ConcPick(c) ==
    /\ calls[c].pc = "scored"
    /\ LET cache == CacheOf(c)
           best_id == CHOOSE x \in DOMAIN cache :
                         \A y \in DOMAIN cache : cache[y].score <= cache[x].score
           best_paper == id_to_paper[best_id]
           focus1 == RemoveFirst(calls[c].focus_ids, best_id)
       IN  calls' = [calls EXCEPT
                       ![c].pc = "while",
                       ![c].focus_ids =
                           IF Len(tree[best_paper].sections) > 0
                           THEN focus1 \o SectionIds(tree, best_paper) ELSE focus1,
                       ![c].final_results =
                           IF Len(tree[best_paper].sections) > 0 THEN @
                           ELSE Append(@, <<best_id, Document(tree, best_paper)>>),
                       ![CacheOwner(c)].id_to_relevance = Pop(cache, best_id)]
    /\ UNCHANGED concRest

\* line 330
ConcReturn(c) ==
    /\ calls[c].pc = "while"
    /\ ~LoopCondition(calls[c].focus_ids, calls[c].final_results, calls[c].n_results)
    /\ calls' = [calls EXCEPT ![c].pc = "returned"]
    /\ UNCHANGED concRest

ConcNext ==
    \E c \in Threads : ConcStart(c) \/ ConcScore(c) \/ ConcPick(c) \/ ConcReturn(c)

ConcSpec == ConcInit /\ [][ConcNext]_vars

\* C18: the relevance cache of a call holds only scores that this very call
\* computed: it starts empty with the call, and no other call, running at
\* the same time or earlier, put a score in it or took one out.
C18_CachePerCall ==
    \A c \in Threads : \A id \in DOMAIN calls[c].id_to_relevance :
       /\ calls[c].id_to_relevance[id].by = <<c, calls[c].call_no>>
       /\ calls[c].id_to_relevance[id].score = calls[c].rel[id]

\* Both calls are in their loop and hold a score for the same id, each its
\* own; the second thread is in its second call.
C18_Witness_TwoCaches ==
    /\ calls[1].pc = "scored" /\ calls[2].pc = "scored"
    /\ calls[2].call_no = 2
    /\ \E id \in DOMAIN calls[1].id_to_relevance \cap DOMAIN calls[2].id_to_relevance :
          calls[1].id_to_relevance[id].score # calls[2].id_to_relevance[id].score

(***************************************************************************)
(* ClientSpec: retrievers of the four classes in one process.  Every       *)
(* chromadb.EphemeralClient() of a process is a handle on the same         *)
(* in-memory store, which is why the classes put unique_id in the          *)
(* collection name and filter on it in __del__.  client maps a collection  *)
(* name to its documents, each a pair <<id, forest>>, and to the retriever *)
(* whose get_or_create_collection created it.                              *)
(***************************************************************************)
MaxQueries == 2        \* bound: query calls on one retriever
IdModulus == 65536     \* 2**16 in unique_id
Objects == {1, 2}      \* the retriever objects
Forests == {1, 2}      \* the forests they are built on
Classes == {"BaseRAG", "BaseRerankRAG", "LevelSearchRAG", "LevelSearchRerankRAG"}
\* int(10000 * time.time()) at the moments of construction
Ticks == {7, IdModulus + 7, 70}

\* str(int(10000 * time.time()) % 2**16)
unique_id(ticks) == ToString(ticks % IdModulus)

\* f"base-rag-{self.unique_id}", f"level-rag-{self.unique_id}"
CollectionName(class, id) ==
    (IF class \in {"BaseRAG", "BaseRerankRAG"} THEN "base-rag-" ELSE "level-rag-") \o id

\* The documents a retriever adds: one paper per forest, titled by the forest.
ForestDocuments(f) == {<<"paper " \o ToString(f), f>>}

Unborn == [state |-> "unborn", class |-> "", unique_id |-> "", forest |-> 0,
           collection |-> "", queries |-> 0]

ClientInit ==
    /\ client = EmptyDict
    /\ retrievers = [r \in Objects |-> Unborn]
    /\ NoTree /\ NoSplit /\ NoRetriever /\ NoQuery
    /\ NoBuild /\ NoGroup /\ NoConc /\ NoFlat

clientRest == <<treeVars, splitVars, ragVars, queryVars, buildVars, groupVars,
                concVars, flatVars>>

\* __init__ with build_collection: get_or_create_collection, then collection.add
NewRetriever(r) ==
    /\ retrievers[r].state = "unborn"
    /\ \E class \in Classes : \E ticks \in Ticks : \E f \in Forests :
          LET id == unique_id(ticks)
              name == CollectionName(class, id)
              old == IF name \in DOMAIN client THEN client[name]
                     ELSE [documents |-> {}, creator |-> r]
          IN  /\ client' = DictSet(client, name,
                                   [old EXCEPT !.documents = @ \cup ForestDocuments(f)])
              /\ retrievers' = [retrievers EXCEPT ![r] =
                                  [state |-> "alive", class |-> class, unique_id |-> id,
                                   forest |-> f, collection |-> name, queries |-> 0]]
    /\ UNCHANGED clientRest

\* query: reads the collection, changes nothing in the client
QueryRetriever(r) ==
    /\ retrievers[r].state = "alive"
    /\ retrievers[r].queries < MaxQueries
    /\ retrievers' = [retrievers EXCEPT ![r].queries = @ + 1]
    /\ UNCHANGED <<client, clientRest>>

\* __del__: delete every collection of the client whose name contains unique_id
DeleteRetriever(r) ==
    /\ retrievers[r].state = "alive"
    /\ client' = [name \in {c \in DOMAIN client : ~Contains(c, retrievers[r].unique_id)}
                    |-> client[name]]
    /\ retrievers' = [retrievers EXCEPT ![r].state = "discarded"]
    /\ UNCHANGED clientRest

ClientNext ==
    \E r \in Objects : NewRetriever(r) \/ QueryRetriever(r) \/ DeleteRetriever(r)

ClientSpec == ClientInit /\ [][ClientNext]_vars

\* C19: the collection of a retriever holds only documents of the forest
\* the retriever was built on, and no collection created by a discarded
\* retriever is left in the client.
C19_FreshAndReleased ==
    /\ \A r \in Objects :
          (retrievers[r].state = "alive" /\ retrievers[r].collection \in DOMAIN client)
             => \A d \in client[retrievers[r].collection].documents :
                   d[2] = retrievers[r].forest
    /\ \A name \in DOMAIN client :
          retrievers[client[name].creator].state # "discarded"

(***************************************************************************)
(* FlatSpec: BaseRAG and BaseRerankRAG (rag.py).  __init__, add_paper and  *)
(* build_collection of the two classes are the same code: only the         *)
(* objects without sections are indexed.                                   *)
(***************************************************************************)
MaxFlatNodes == 4      \* bound: PaperTree objects of the forest
MaxScore == 3          \* bound: the reranker's scores are 1..MaxScore, ties included
OverFetch == 3         \* n_results = 3 * n_results

\* add_paper(paper), on acc = [chunks, ids]
RECURSIVE flat_add_paper(_, _, _)
RECURSIVE FlatAddPaperEach(_, _, _, _)
flat_add_paper(acc, h, paper) ==
    LET acc1 == IF Len(h[paper].sections) = 0
                THEN [chunks |-> Append(acc.chunks, Document(h, paper)),
                      ids |-> Append(acc.ids, _id_str(h, paper))]
                ELSE acc
    IN  FlatAddPaperEach(acc1, h, h[paper].sections, 1)
FlatAddPaperEach(acc, h, secs, i) ==
    IF i > Len(secs) THEN acc
    ELSE FlatAddPaperEach(flat_add_paper(acc, h, secs[i]), h, secs, i + 1)

\* The retriever after __init__ returned.  collection.add rejects a repeated
\* id, so the objects of the forest have different titles.
FlatInit ==
    /\ \E n \in 1..MaxFlatNodes : \E par \in ParentVectors(n, TRUE) :
          /\ tree = [i \in 1..n |->
                       [title |-> "S" \o ToString(i), text |-> GivenAbstract,
                        abstract |-> <<GivenAbstract>>,
                        sections |-> ChildrenOf(par, i), parent |-> par[i]]]
          /\ papers = SortedSeq(RootsOf(par))
    /\ last = "__init__" /\ stage = <<>>
    /\ cls \in {"BaseRAG", "BaseRerankRAG"}
    /\ LET acc == FlatAddPaperEach([chunks |-> <<>>, ids |-> <<>>], tree, papers, 1)
       IN  /\ rag_chunks = acc.chunks
           /\ rag_ids = acc.ids
           /\ collection = [id \in Range(acc.ids) |->
                              acc.chunks[CHOOSE i \in 1..Len(acc.ids) : acc.ids[i] = id]]
    /\ id_to_paper = EmptyDict /\ level_zero = <<>>
    /\ pc = "idle" /\ n_results = 0 /\ sim = EmptyDict /\ rel = EmptyDict
    /\ focus_ids = <<>> /\ final_results = <<>>
    /\ id_to_relevance = EmptyDict /\ iterations = 0 /\ scored_ids = <<>>
    /\ error = ""
    /\ NoSplit /\ NoBuild /\ NoGroup /\ NoConc /\ NoClient

\* self.collection.query(query_embeddings = [e], n_results = n): the n most
\* similar documents of the index, fewer if the index holds fewer
flat_collection_query(similarity, n) ==
    LET hits == TopBy(similarity, DOMAIN collection, n)
    IN  [ids |-> <<hits>>,
         documents |-> <<[i \in 1..Len(hits) |-> collection[hits[i]]]>>]

\* for i in range(len(result_docs)): final_results.append((result_ids[i], result_docs[i]))
Pairs(result_ids, result_docs) ==
    [i \in 1..Len(result_docs) |-> <<result_ids[i], result_docs[i]>>]

\* rank_indices(lst): the positions of lst by descending score; sorted is
\* stable, so equal scores keep their order.  Positions count from 1 here.
RECURSIVE RankFrom(_, _)
RankFrom(lst, left) ==
    IF left = {} THEN <<>>
    ELSE LET i == CHOOSE a \in left :
                     \A b \in left : lst[b] < lst[a] \/ (lst[b] = lst[a] /\ a <= b)
         IN  <<i>> \o RankFrom(lst, left \ {i})

rank_indicesMutant(lst) == [i \in 1..Len(lst) |-> i]

rank_indices(lst) == RankFrom(lst, 1..Len(lst))

\* rerank(query, paragraphs): compute_score on every paragraph, then rank_indices
rerank(score, paragraphs) ==
    rank_indices([i \in 1..Len(paragraphs) |-> score[paragraphs[i].id]])

\* np.array(xs)[rankings][0:n]
TakeRanked(xs, rankings, n) ==
    LET picked == [i \in 1..Len(rankings) |-> xs[rankings[i]]]
    IN  SubSeq(picked, 1, IF n < Len(picked) THEN n ELSE Len(picked))

flatRest == <<treeVars, splitVars, ragVars, flatVars, focus_ids, id_to_relevance,
              iterations, scored_ids, error, buildVars, groupVars, concVars, clientVars>>

\* BaseRAG.query(query, n_results); the index refuses n_results = 0
BaseQuery ==
    /\ pc = "idle" /\ cls = "BaseRAG"
    /\ \E k \in 1..MaxResults : \E s \in Rankings(DOMAIN collection) :
          /\ n_results' = k
          /\ sim' = s
          /\ rel' = EmptyDict
          /\ LET results == flat_collection_query(s, k)
             IN  final_results' = Pairs(results.ids[1], results.documents[1])
    /\ pc' = "returned"
    /\ UNCHANGED flatRest

\* BaseRerankRAG.query(query, n_results)
RerankQuery ==
    /\ pc = "idle" /\ cls = "BaseRerankRAG"
    /\ \E k \in 1..MaxResults : \E s \in Rankings(DOMAIN collection) :
       \E r \in [DOMAIN collection -> 1..MaxScore] :
          /\ n_results' = k
          /\ sim' = s
          /\ rel' = r
          /\ LET results == flat_collection_query(s, OverFetch * k)
                 result_ids == results.ids[1]
                 result_docs == results.documents[1]
                 rankings == rerank(r, result_docs)
             IN  final_results' = Pairs(TakeRanked(result_ids, rankings, k),
                                        TakeRanked(result_docs, rankings, k))
    /\ pc' = "returned"
    /\ UNCHANGED flatRest

\* the caller takes the result; the retriever is ready for the next call
FlatFinish ==
    /\ pc = "returned"
    /\ pc' = "idle" /\ n_results' = 0 /\ sim' = EmptyDict /\ rel' = EmptyDict
    /\ final_results' = <<>>
    /\ UNCHANGED flatRest

FlatNext == BaseQuery \/ RerankQuery \/ FlatFinish

FlatSpec == FlatInit /\ [][FlatNext]_vars

\* The candidates of a call: the 3k documents most similar to the query.
Candidates ==
    {id \in DOMAIN collection :
        Cardinality({o \in DOMAIN collection : sim[o] > sim[id]}) < OverFetch * n_results}

ReturnedIds == {final_results[i][1] : i \in 1..Len(final_results)}

\* C20: BaseRerankRAG.query(q, k) returns min(k, number of candidates)
\* pairs, all of them different candidates among the 3k documents most
\* similar to q, in descending order of reranker score, no candidate left
\* out scoring higher than a returned one, each id with its own document.
C20_RerankTopK ==
    (pc = "returned" /\ cls = "BaseRerankRAG") =>
        /\ Len(final_results) =
              (IF n_results < Cardinality(Candidates) THEN n_results
               ELSE Cardinality(Candidates))
        /\ Cardinality(ReturnedIds) = Len(final_results)
        /\ ReturnedIds \subseteq Candidates
        /\ \A i \in 1..Len(final_results) :
              final_results[i][2] = collection[final_results[i][1]]
        /\ \A i, j \in 1..Len(final_results) :
              i < j => rel[final_results[i][1]] >= rel[final_results[j][1]]
        /\ \A c \in Candidates \ ReturnedIds : \A d \in ReturnedIds : rel[c] <= rel[d]

\* A call with k = 1 on four documents: three are candidates, the one
\* returned is not the most similar one, and the document outside the
\* candidates scores higher than it.
C20_Witness_Reranked ==
    /\ pc = "returned" /\ cls = "BaseRerankRAG" /\ n_results = 1
    /\ Cardinality(DOMAIN collection) = 4
    /\ Len(final_results) = 1
    /\ \E o \in DOMAIN collection : sim[o] > sim[final_results[1][1]]
    /\ \E o \in DOMAIN collection \ Candidates : rel[o] > rel[final_results[1][1]]

(***************************************************************************)
(* Further claims about the hierarchical retrievers.                       *)
(***************************************************************************)
\* The ids of the depth-0 objects of the forest.
RootIds == {_id_str(tree, papers[i]) : i \in 1..Len(papers)}

\* C21: when a query call of LevelSearchRAG or LevelSearchRerankRAG is at
\* its first loop test, the frontier holds exactly the ids of all depth-0
\* objects of the forest, those without an abstract included, and the list
\* of results is empty.
C21_FrontierIsAllRoots ==
    (pc = "while" /\ iterations = 0 /\ cls \in {"LevelSearchRAG", "LevelSearchRerankRAG"}) =>
        /\ Range(focus_ids) = RootIds
        /\ final_results = <<>>

(***************************************************************************)
(* Further claims about construction, checked under BuildSpec.             *)
(***************************************************************************)
\* The object and every object below it with their depths, in document order.
RECURSIVE NodesAt(_, _)
RECURSIVE NodesAtEach(_, _, _)
NodesAt(node, depth) ==
    <<[node |-> node, depth |-> depth]>> \o NodesAtEach(node.sections, depth + 1, 1)
NodesAtEach(sections, depth, i) ==
    IF i > Len(sections) THEN <<>>
    ELSE NodesAt(sections[i], depth) \o NodesAtEach(sections, depth, i + 1)

\* The positions of the headings of level d in a text, in order.
HeadingsAt(text, d) == SortedSeq({i \in 1..Len(text) : IsHeading(text[i], d)})

\* The first heading level of 0..depth with a match in the text, -1 if none.
FirstLevel(text, depth) ==
    LET found == {d \in 0..depth : HeadingsAt(text, d) # <<>>}
    IN  IF found = {} THEN -1 ELSE CHOOSE d \in found : \A e \in found : d <= e

\* C22: an object at depth n that is split, whose text has no appendix
\* marker and has a heading of some level 0..n, gets its children from the
\* lowest such level alone: with m headings of that level, m + 1 children,
\* "Headers" with the text before the first heading, then one per heading
\* in order, titled with the heading's argument without its outer braces and
\* holding the text up to the next heading of that level or the end.
C22_HeadingSplit ==
    build_pc = "done" =>
      \A n \in 1..Len(NodesAt(built, 0)) :
         LET node == NodesAt(built, 0)[n].node
             text == node.text
             d == FirstLevel(text, NodesAt(built, 0)[n].depth)
             pos == HeadingsAt(text, d)
             m == Len(pos)
         IN  (~IsFloat(node) /\ d >= 0 /\ \A i \in 1..Len(text) : ~IsAppendix(text[i]))
             => /\ Len(node.sections) = m + 1
                /\ node.sections[1].title = "Headers"
                /\ node.sections[1].text = SubSeq(text, 1, pos[1] - 1)
                /\ \A k \in 1..m :
                      /\ node.sections[k + 1].title
                           = SubSeq(text[pos[k]].arg, 2, Len(text[pos[k]].arg) - 1)
                      /\ node.sections[k + 1].text
                           = SubSeq(text, pos[k] + 1,
                                    IF k < m THEN pos[k + 1] - 1 ELSE Len(text))

\* \section{A} \subsection{B} word: the child "A", at depth 1, has no
\* \section in its text and is split at its \subsection.
C22_Witness_SecondLevel ==
    /\ build_pc = "done"
    /\ Len(built.sections) = 2
    /\ built.sections[2].title = "A"
    /\ built.sections[2].text = <<HeadingCmd(1, "{B}"), Word(51)>>
    /\ TitlesOf(built.sections[2].sections) = <<"Headers", "B">>
    /\ built.sections[2].sections[2].text = <<Word(51)>>

\* The children from the i-th on begin, one after the other, at positions of
\* the text from `from` on: each child with a text begins at a token of the
\* parent's text that comes after the token the child before it begins at.
RECURSIVE InDocumentOrder(_, _, _, _)
InDocumentOrder(text, sections, i, from) ==
    IF i > Len(sections) THEN TRUE
    ELSE IF sections[i].text = <<>> THEN InDocumentOrder(text, sections, i + 1, from)
    ELSE LET at == {p \in from..Len(text) : text[p] = Head(sections[i].text)}
         IN  /\ at # {}
             /\ InDocumentOrder(text, sections, i + 1,
                                (CHOOSE p \in at : \A q \in at : p <= q) + 1)

\* C23: the children of every constructed object are in the order in which
\* their texts begin in the object's text, floats among ordinary text
\* included.
C23_ChildrenInDocumentOrder ==
    build_pc = "done" =>
      \A n \in 1..Len(NodesOf(built)) :
         InDocumentOrder(NodesOf(built)[n].text, NodesOf(built)[n].sections, 1, 1)

(***************************************************************************)
(* Further claims about the chunking, checked under SplitSpec.             *)
(***************************************************************************)
\* The float children, made before the chunking.
FloatChildren == SelectSeq(split_sections, LAMBDA t : IsFloatTitle(t))

\* C24 as stated: with exactly one chunk, one child "Chunk 0" is added
\* exactly when no float was extracted and the text left has more than 50
\* non-whitespace characters; in every other one-chunk case none is added.
C24_OneChunkWithoutFloats ==
    (split_pc = "returned" /\ len_chunks = 1) =>
        ChunkChildren = (IF FloatChildren = <<>> /\ split_text.chars > 50
                         THEN <<"Chunk 0">> ELSE <<>>)

\* C24, amended: with exactly one chunk, one child "Chunk 0" is added after
\* the float children exactly when at least one float was extracted and the
\* text left has more than 50 non-whitespace characters; in every other
\* one-chunk case none is added.
C24_OneChunkBesideFloats ==
    (split_pc = "returned" /\ len_chunks = 1) =>
        /\ ChunkChildren = (IF FloatChildren # <<>> /\ split_text.chars > 50
                            THEN <<"Chunk 0">> ELSE <<>>)
        /\ split_sections = FloatChildren \o ChunkChildren

\* One float and 51 characters left in one chunk.
C24_Witness_ChunkAfterFloat ==
    /\ split_pc = "returned" /\ len_chunks = 1
    /\ split_text.chars = 51
    /\ split_sections = <<"figure 0", "Chunk 0">>

\* C25: within one call of LevelSearchRerankRAG.query no id goes to the
\* reranker twice (a cached id is not scored again, a chosen id does not
\* come back from the index), and one iteration sends it at most 15 ids.
C25_ScoredAtMostOnce ==
    /\ [](cls = "LevelSearchRerankRAG" =>
             \A i, j \in 1..Len(scored_ids) : i # j => scored_ids[i] # scored_ids[j])
    /\ [][Len(scored_ids') <= Len(scored_ids) + RerankCandidates]_vars

(***************************************************************************)
(* Further claims about fix_letter_subsections, checked under TreeSpec.    *)
(***************************************************************************)
\* The title is "Subsection N".
IsSubsectionTitle(t) == \E k \in 0..MAX_CHUNKS : t = "Subsection " \o ToString(k)

\* The child is a "Headers" object with children that are all "Subsection N".
Qualifies(h, section) ==
    /\ h[section].title = "Headers"
    /\ Len(h[section].sections) > 0
    /\ \A s \in Range(h[section].sections) : IsSubsectionTitle(h[s].title)

\* The children from the i-th on, each qualifying one replaced by its own.
RECURSIVE Flattened(_, _, _)
Flattened(h, secs, i) ==
    IF i > Len(secs) THEN <<>>
    ELSE (IF Qualifies(h, secs[i]) THEN h[secs[i]].sections ELSE <<secs[i]>>)
         \o Flattened(h, secs, i + 1)

\* C26: fix_letter_subsections(paper) replaces, at its position, exactly
\* each child titled "Headers" that has children all titled "Subsection N"
\* by those children, re-parented to paper; every other child stays in the
\* list, in order, and no other object changes.
C26_OnlyQualifyingFlattened ==
    [][last' = "fix_letter_subsections" =>
          /\ tree'[root].sections = Flattened(tree, tree[root].sections, 1)
          /\ \A n \in Nodes :
                IF \E c \in Range(tree[root].sections) :
                      Qualifies(tree, c) /\ n \in Range(tree[c].sections)
                THEN tree'[n] = [tree[n] EXCEPT !.parent = root]
                ELSE n # root => tree'[n] = tree[n]]_vars

(***************************************************************************)
(* Further claims about the query loop, checked under Spec.                *)
(***************************************************************************)
\* No two objects of the forest have the same breadcrumb id.
UniqueIds == \A m, n \in Nodes : m # n => _id_str(tree, m) # _id_str(tree, n)

NoRepeats(list) == \A i, j \in 1..Len(list) : i # j => list[i] # list[j]

ResultIds == [i \in 1..Len(final_results) |-> final_results[i][1]]

\* The object with id x is above the object with id y.
IsAbove(x, y) ==
    \E m, n \in Nodes : /\ _id_str(tree, m) = x /\ _id_str(tree, n) = y
                        /\ m # n /\ m \in AncSelf([k \in Nodes |-> tree[k].parent], n)

\* One execution of the loop body that selected the object n.
Selected(n) ==
    LET id == _id_str(tree, n)
        at == {i \in 1..Len(focus_ids) : focus_ids[i] = id}
        first == CHOOSE i \in at : \A j \in at : i <= j
        rest == SubSeq(focus_ids, 1, first - 1) \o SubSeq(focus_ids, first + 1, Len(focus_ids))
    IN  /\ at # {}
        /\ IF tree[n].sections = <<>>
           THEN /\ focus_ids' = rest
                /\ ResultIds' = Append(ResultIds, id)
           ELSE /\ focus_ids' = rest \o [i \in 1..Len(tree[n].sections) |->
                                           _id_str(tree, tree[n].sections[i])]
                /\ final_results' = final_results

\* C27: every execution of the loop body that goes on takes the selected id
\* out of the frontier and either appends it to the results (no sections)
\* or appends the ids of all its sections to the frontier; and when the
\* breadcrumb ids are unique, no id is twice in the frontier or twice in the
\* results, none is in both, and none of them is the id of an object above
\* another of them, so that an id that left the frontier cannot enter again.
C27_FrontierDiscipline ==
    /\ [][(pc = "while" /\ pc' = "while" /\ iterations' = iterations + 1)
             => \E n \in Nodes : Selected(n)]_vars
    /\ [](UniqueIds =>
             /\ NoRepeats(focus_ids \o ResultIds)
             /\ \A x, y \in Range(focus_ids \o ResultIds) : ~IsAbove(x, y))

\* Unique ids; a query for two results has one result from below the level
\* of the papers while a paper and a section wait in the frontier.
C27_Witness_Descended ==
    /\ UniqueIds /\ pc = "while" /\ n_results = 2
    /\ Len(final_results) = 1
    /\ final_results[1][1] \notin Range(level_zero)
    /\ \E i, j \in 1..Len(focus_ids) :
          focus_ids[i] \in Range(level_zero) /\ focus_ids[j] \notin Range(level_zero)

\* C28: in LevelSearchRerankRAG.query, at every loop test the keys of the
\* relevance cache are ids of the frontier; when the loop body runs, the
\* cache holds a key at the selection step; and the call never raises.
C28_CacheWithinFrontier ==
    cls = "LevelSearchRerankRAG" =>
        /\ pc = "while" => DOMAIN id_to_relevance \subseteq Range(focus_ids)
        /\ (pc = "while" /\ Len(focus_ids) > 0 /\ Len(final_results) < n_results)
              => DOMAIN id_to_relevance
                   \cup Range(collection_query(focus_ids, RerankCandidates).ids[1]) # {}
        /\ pc # "raised"

(***************************************************************************)
(* Further claims about the retrievers of one process (ClientSpec).        *)
(***************************************************************************)
AliveRetrievers == {r \in Objects : retrievers[r].state = "alive"}

\* C29: two retrievers alive at the same time never share a collection, the
\* collection of an alive retriever is in the client whatever other
\* retriever was discarded, their unique_id values differ, and the
\* unique_id of one is not part of the collection name of the other.
C29_RetrieversIsolated ==
    /\ \A r \in AliveRetrievers : retrievers[r].collection \in DOMAIN client
    /\ \A r, o \in AliveRetrievers :
          r # o => /\ retrievers[r].collection # retrievers[o].collection
                   /\ retrievers[r].unique_id # retrievers[o].unique_id
                   /\ ~Contains(retrievers[o].collection, retrievers[r].unique_id)

\* C30: no step of a query changes a PaperTree object, the list of papers,
\* level_zero, id_to_paper or the index, and every call starts from the
\* frontier level_zero with no results, however many calls ran before; so
\* a repeated query meets the state the first one met.
C30_QueriesLeaveForestAlone ==
    /\ [][/\ tree' = tree /\ papers' = papers
          /\ level_zero' = level_zero /\ id_to_paper' = id_to_paper
          /\ collection' = collection]_vars
    /\ []((pc = "while" /\ iterations = 0) =>
             /\ focus_ids = level_zero
             /\ final_results = <<>> /\ id_to_relevance = EmptyDict)
    /\ []((pc = "idle") =>
             /\ level_zero = AddPapers(tree, papers).level_zero
             /\ id_to_paper = AddPapers(tree, papers).id_to_paper)

\* A call has returned two results after changing its frontier: the
\* frontier holds ids from below the papers, level_zero does not.
C30_Witness_FrontierMoved ==
    /\ pc = "returned" /\ Len(final_results) = 2
    /\ focus_ids # level_zero /\ Len(focus_ids) > 0
    /\ \E i \in 1..Len(focus_ids) : focus_ids[i] \notin Range(level_zero)

====
